---- MODULE Spec2Model ----
(***************************************************************************)
(* CryptoPunk search: the async lifecycle machine (useSafeDispatch,        *)
(* asyncReducer, useAsync), its host component PunkInfo, the error         *)
(* boundary around it, the search form and the fetchPunk supplier.         *)
(*                                                                         *)
(* The repository holds two revisions of the application file.  They       *)
(* differ in useAsync.run (one delays the 'resolved' dispatch with a       *)
(* 2000 ms timer), in fetchPunk and in PunkForm.handleSubmit.  The         *)
(* variable build selects the revision; it never changes in a behaviour.   *)
(***************************************************************************)
EXTENDS Integers, Sequences, FiniteSets, TLC

VARIABLES
  build,        \* which revision of the application file runs
  punkNumber,   \* App: React.useState('') - the identifier
  punkName,     \* PunkForm: React.useState(initialPunkName) - the input text
  hosts,        \* PunkInfo instances, in mount order: mountedRef and reducer state
  boundary,     \* ErrorBoundary: the error it caught, or NoError
  futs,         \* promises handed to run, in call order
  timers,       \* pending setTimeout callbacks of run (FIFO, equal delays)
  rstate,       \* reducer harness: current state
  raction,      \* reducer harness: last event applied
  rprior,       \* reducer harness: state the last event was applied to
  rthrown,      \* reducer harness: error thrown by the last application
  submissions   \* form harness: the texts submitted and what onSubmit got

appVars == <<build, punkNumber, punkName, hosts, boundary, futs, timers>>
redVars == <<rstate, raction, rprior, rthrown>>
formVars == <<submissions>>
harnessVars == <<rstate, raction, rprior, rthrown, submissions>>
vars == <<build, punkNumber, punkName, hosts, boundary, futs, timers,
          rstate, raction, rprior, rthrown, submissions>>

(***************************************************************************)
(* Bounds                                                                  *)
(***************************************************************************)
MaxFuts == 3      \* run calls in one behaviour
MaxHosts == 3     \* PunkInfo instances mounted in one behaviour
NumValues == 2    \* distinct payloads fed to the reducer harness
MaxLen == 6       \* length of the texts fed to the form harness

(***************************************************************************)
(* JavaScript values                                                       *)
(***************************************************************************)
NullV == [k |-> "null"]
UndefinedV == [k |-> "undefined"]
NoError == [k |-> "none"]

Builds == {"App", "part_000"}

\* new Error(message); of names the promise whose rejection created it
ErrorObj(f, m) == [k |-> "error", of |-> f, message |-> m]

FixedMessage ==
  <<"Punk does not exist, please use the correct format when sumbitting a query!">>

\* the record the server keeps for identifier n, and its error body
PunkRecord(n) ==
  [k |-> "obj", number |-> n, type |-> "Male", image |-> "img",
   accessories |-> <<"Cap">>]
NoImageRecord(n) ==
  [k |-> "obj", number |-> n, type |-> "Male", image |-> "",
   accessories |-> <<"Cap">>]
ErrorBody(n) ==
  [k |-> "obj", number |-> n, type |-> "", image |-> "", accessories |-> <<>>]

(***************************************************************************)
(* asyncReducer                                                            *)
(***************************************************************************)
Threw(m) == [k |-> "throw", message |-> m]

\* variants of asyncReducer, each with one slip
\* ... the new state is spread over the old one
asyncReducer_spread(state, action) ==
  CASE action.type = "pending" -> [state EXCEPT !.status = "pending"]
    [] action.type = "resolved" ->
         [state EXCEPT !.status = "resolved", !.data = action.data]
    [] action.type = "rejected" ->
         [state EXCEPT !.status = "rejected", !.error = action.error]
    [] OTHER -> Threw(<<"Unhandled action type: ", action.type>>)

\* ... 'resolved' reads a field the event does not carry
asyncReducer_nodata(state, action) ==
  CASE action.type = "pending" ->
         [status |-> "pending", data |-> UndefinedV, error |-> UndefinedV]
    [] action.type = "resolved" ->
         [status |-> "resolved", data |-> UndefinedV, error |-> UndefinedV]
    [] action.type = "rejected" ->
         [status |-> "rejected", data |-> UndefinedV, error |-> action.error]
    [] OTHER -> Threw(<<"Unhandled action type: ", action.type>>)

\* ... 'resolved' is ignored unless the state is pending
asyncReducer_firstwins(state, action) ==
  CASE action.type = "pending" ->
         [status |-> "pending", data |-> UndefinedV, error |-> UndefinedV]
    [] action.type = "resolved" ->
         IF state.status = "pending"
           THEN [status |-> "resolved", data |-> action.data, error |-> UndefinedV]
           ELSE state
    [] action.type = "rejected" ->
         [status |-> "rejected", data |-> UndefinedV, error |-> action.error]
    [] OTHER -> Threw(<<"Unhandled action type: ", action.type>>)

\* ... the 'pending' case is misspelt and never matches
asyncReducer_nopending(state, action) ==
  CASE action.type = "resolved" ->
         [status |-> "resolved", data |-> action.data, error |-> UndefinedV]
    [] action.type = "rejected" ->
         [status |-> "rejected", data |-> UndefinedV, error |-> action.error]
    [] OTHER -> Threw(<<"Unhandled action type: ", action.type>>)

\* ... 'rejected' keeps the previous state's fields
asyncReducer_keep(state, action) ==
  CASE action.type = "pending" ->
         [status |-> "pending", data |-> UndefinedV, error |-> UndefinedV]
    [] action.type = "resolved" ->
         [status |-> "resolved", data |-> action.data, error |-> UndefinedV]
    [] action.type = "rejected" ->
         [state EXCEPT !.status = "rejected", !.error = action.error]
    [] OTHER -> Threw(<<"Unhandled action type: ", action.type>>)

\* ... the default case returns the state instead of throwing
asyncReducer_swallow(state, action) ==
  CASE action.type = "pending" ->
         [status |-> "pending", data |-> UndefinedV, error |-> UndefinedV]
    [] action.type = "resolved" ->
         [status |-> "resolved", data |-> action.data, error |-> UndefinedV]
    [] action.type = "rejected" ->
         [status |-> "rejected", data |-> UndefinedV, error |-> action.error]
    [] OTHER -> state

asyncReducer(state, action) ==
  CASE action.type = "pending" ->
         [status |-> "pending", data |-> UndefinedV, error |-> UndefinedV]
    [] action.type = "resolved" ->
         [status |-> "resolved", data |-> action.data, error |-> UndefinedV]
    [] action.type = "rejected" ->
         [status |-> "rejected", data |-> UndefinedV, error |-> action.error]
    [] OTHER -> Threw(<<"Unhandled action type: ", action.type>>)

\* useReducer's initial argument in useAsync, with PunkInfo's initialState
InitialState(pn) ==
  [status |-> IF pn # <<>> THEN "pending" ELSE "idle",
   data |-> NullV, error |-> NullV]

PendingAction == [type |-> "pending", data |-> UndefinedV, error |-> UndefinedV]
ResolvedAction(d) == [type |-> "resolved", data |-> d, error |-> UndefinedV]
RejectedAction(e) == [type |-> "rejected", data |-> UndefinedV, error |-> e]

(***************************************************************************)
(* PunkForm.handleSubmit: identifiers and input texts are sequences of     *)
(* one-character strings                                                   *)
(***************************************************************************)
Digits == <<"0", "1", "2", "3", "4", "5", "6", "7", "8", "9">>
IsDigit(c) == \E i \in 1..10 : Digits[i] = c
DigitVal(c) == (CHOOSE i \in 1..10 : Digits[i] = c) - 1

NaN == [nan |-> TRUE, val |-> 0]
Num(n) == [nan |-> FALSE, val |-> n]

RECURSIVE SkipSpace(_)
SkipSpace(s) ==
  IF s # <<>> /\ Head(s) = " " THEN SkipSpace(Tail(s)) ELSE s

\* the longest prefix of decimal digits
RECURSIVE DigitPrefix(_)
DigitPrefix(s) ==
  IF s # <<>> /\ IsDigit(Head(s))
    THEN <<Head(s)>> \o DigitPrefix(Tail(s))
    ELSE <<>>

RECURSIVE DigitsValue(_, _)
DigitsValue(s, acc) ==
  IF s = <<>> THEN acc
  ELSE DigitsValue(Tail(s), acc * 10 + DigitVal(Head(s)))

\* parseInt(string) with the default radix, on texts without a 0x prefix
parseInt(s) ==
  LET t == SkipSpace(s)
      neg == t # <<>> /\ Head(t) = "-"
      u == IF t # <<>> /\ Head(t) \in {"-", "+"} THEN Tail(t) ELSE t
      d == DigitPrefix(u)
  IN IF d = <<>> THEN NaN
     ELSE Num(IF neg THEN 0 - DigitsValue(d, 0) ELSE DigitsValue(d, 0))

\* `${n}` for an integer n
RECURSIVE NatToString(_)
NatToString(n) ==
  IF n < 10 THEN <<Digits[n + 1]>>
  ELSE NatToString(n \div 10) \o <<Digits[(n % 10) + 1]>>
NumberToString(n) ==
  IF n < 0 THEN <<"-">> \o NatToString(0 - n) ELSE NatToString(n)

\* slice(0, 4)
Slice04(s) == SubSeq(s, 1, IF Len(s) < 4 THEN Len(s) ELSE 4)

\* what handleSubmit passes to onSubmit: [called, arg]
NoSubmit == [called |-> FALSE, arg |-> <<>>]
OnSubmit(a) == [called |-> TRUE, arg |-> a]

\* a variant of handleSubmit without the isNaN test: every comparison
\* with NaN is false, so the text reaches the last branch
handleSubmit_nocheck(b, name) ==
  LET p == parseInt(name) IN
  IF p.nan THEN OnSubmit(name)
  ELSE IF p.val < 100 /\ p.val >= 10 THEN OnSubmit(<<"0">> \o NumberToString(p.val))
  ELSE IF p.val < 10 /\ p.val >= 0 THEN OnSubmit(<<"0", "0">> \o NumberToString(p.val))
  ELSE IF b = "App" /\ p.val > 9999 THEN OnSubmit(Slice04(name))
  ELSE OnSubmit(name)

handleSubmit(b, name) ==
  LET p == parseInt(name) IN
  IF p.nan THEN NoSubmit
  ELSE IF p.val < 100 /\ p.val >= 10 THEN OnSubmit(<<"0">> \o NumberToString(p.val))
  ELSE IF p.val < 10 /\ p.val >= 0 THEN OnSubmit(<<"0", "0">> \o NumberToString(p.val))
  ELSE IF b = "App" /\ p.val > 9999 THEN OnSubmit(Slice04(name))
  ELSE OnSubmit(name)

\* texts the user types into the input
Texts == { <<"7">>, <<"4", "2">> }

\* the form harness: every text of up to MaxLen of these characters
Alphabet == {"0", "1", "9", "a", "-"}
FormTexts == UNION { [1..k -> Alphabet] : k \in 0..MaxLen } \cup Texts

\* one submission of the form: the text in the input and the call made
Submission(text, r) == [text |-> text, called |-> r.called, arg |-> r.arg]

(***************************************************************************)
(* fetchPunk: the outcome of the promise for each kind of HTTP exchange    *)
(***************************************************************************)
Responses == {"ok", "not_ok", "network_error"}

Fulfilled(v) == [settled |-> "fulfilled", value |-> v, message |-> <<>>]
Rejected(m) == [settled |-> "rejected", value |-> UndefinedV, message |-> m]

NoPunkFound(n) == <<"No Punk found with the number ", n>>

fetchPunk(b, n, resp) ==
  LET punkData == CASE resp = "ok" -> PunkRecord(n)
                    [] resp = "ok_noimage" -> NoImageRecord(n)
                    [] OTHER -> ErrorBody(n)
      resOk == resp \in {"ok", "ok_noimage"}
  IN
  IF resp = "network_error" THEN Rejected(<<"Failed to fetch">>)
  ELSE IF b = "App"
    THEN IF ~resOk THEN Rejected(NoPunkFound(n)) ELSE Fulfilled(punkData)
    ELSE IF resOk
           THEN IF punkData.image # "" THEN Fulfilled(punkData)
                ELSE Rejected(NoPunkFound(n))
           ELSE Fulfilled(punkData)

(***************************************************************************)
(* useSafeDispatch, useAsync and PunkInfo                                  *)
(***************************************************************************)
IsThrow(r) == "k" \in DOMAIN r

\* a PunkInfo instance right after mount (the layout effect has run):
\* crash holds an error thrown by the reducer while rendering
NewHost(pn) == [mounted |-> TRUE, state |-> InitialState(pn), crash |-> NoError]

\* useReducer's dispatch: the next render applies the reducer
unsafeDispatch(host, action) ==
  LET r == asyncReducer(host.state, action) IN
  IF IsThrow(r) THEN [host EXCEPT !.crash = ErrorObj(0, r.message)]
  ELSE [host EXCEPT !.state = r]

\* a variant of useSafeDispatch that does not read mountedRef
useSafeDispatch_always(host, action) == unsafeDispatch(host, action)

\* the callback useSafeDispatch returns
useSafeDispatch(host, action) ==
  IF host.mounted THEN unsafeDispatch(host, action) ELSE host

\* history of one call of the safe dispatcher: the event's tag and
\* whether the instance was mounted, so that the event reached the reducer
Dispatched(t, host) == [type |-> t, applied |-> host.mounted]

Outside == <<"This exists outside the error boundry and should not display">>

\* what PunkInfo's render returns or throws
View(v, n, p, e) == [view |-> v, number |-> n, punk |-> p, error |-> e]

\* variants of PunkInfo's render
\* ... the first branch tests the status only, not the identifier
PunkInfo_noguard(host, pn) ==
  IF host.crash # NoError THEN View("throw", pn, UndefinedV, host.crash)
  ELSE IF host.state.status = "idle"
    THEN View("empty", pn, UndefinedV, NoError)
  ELSE IF host.state.status = "pending"
    THEN View("fallback", pn, UndefinedV, NoError)
  ELSE IF host.state.status = "rejected"
    THEN View("throw", pn, UndefinedV, host.state.error)
  ELSE IF host.state.status = "resolved"
    THEN View("card", pn, host.state.data, NoError)
  ELSE View("throw", pn, UndefinedV, ErrorObj(0, Outside))

\* ... the rejected branch renders the placeholder instead of throwing
PunkInfo_nothrow(host, pn) ==
  IF host.crash # NoError THEN View("throw", pn, UndefinedV, host.crash)
  ELSE IF host.state.status = "idle" \/ pn = <<>>
    THEN View("empty", pn, UndefinedV, NoError)
  ELSE IF host.state.status = "pending"
    THEN View("fallback", pn, UndefinedV, NoError)
  ELSE IF host.state.status = "rejected"
    THEN View("empty", pn, UndefinedV, NoError)
  ELSE IF host.state.status = "resolved"
    THEN View("card", pn, host.state.data, NoError)
  ELSE View("throw", pn, UndefinedV, ErrorObj(0, Outside))

PunkInfo(host, pn) ==
  IF host.crash # NoError THEN View("throw", pn, UndefinedV, host.crash)
  ELSE IF host.state.status = "idle" \/ pn = <<>>
    THEN View("empty", pn, UndefinedV, NoError)
  ELSE IF host.state.status = "pending"
    THEN View("fallback", pn, UndefinedV, NoError)
  ELSE IF host.state.status = "rejected"
    THEN View("throw", pn, UndefinedV, host.state.error)
  ELSE IF host.state.status = "resolved"
    THEN View("card", pn, host.state.data, NoError)
  ELSE View("throw", pn, UndefinedV, ErrorObj(0, Outside))

\* re-render of the newest instance; a throw unmounts it (the layout
\* effect's cleanup clears mountedRef) and the ErrorBoundary keeps the error
Commit(hs, pn, bd) ==
  LET h == Len(hs)
      v == PunkInfo(hs[h], pn)
  IN IF hs[h].mounted /\ v.view = "throw"
       THEN [hosts |-> [hs EXCEPT ![h].mounted = FALSE], boundary |-> v.error]
       ELSE [hosts |-> hs, boundary |-> bd]

\* a promise handed to run: the instance whose run it is, the identifier
\* it fetches, its settlement, how far its then-callback has got, and as
\* history the dispatches run has made for it, in order, whether every
\* earlier promise of the instance was finished when it was started,
\* whether it settled after a later promise of the instance, and, for a
\* promise started with the earlier ones finished, what the render
\* committed whose effect called run (host: the instance at that render)
NewFut(h, pn, host) ==
  LET alone == \A g \in 1..Len(futs) : futs[g].host = h => futs[g].stage = "done"
  IN [host |-> h, id |-> pn, settled |-> "pending", value |-> UndefinedV,
      cause |-> <<>>, error |-> UndefinedV, stage |-> "waiting",
      disp |-> <<Dispatched("pending", host)>>,
      alone |-> alone,
      late |-> FALSE,
      frame |-> IF alone THEN PunkInfo(host, pn)
                         ELSE View("unrecorded", pn, UndefinedV, NoError)]

SettlesLate(fs, f) ==
  \E g \in (f + 1)..Len(fs) :
    fs[g].host = fs[f].host /\ fs[g].settled # "pending"

\* a variant of onRejected that leaves the message as it was
onRejected_keep(error) == error

\* run's second callback: the caught error with its message overwritten
onRejected(error) == [error EXCEPT !.message = FixedMessage]

\* a variant of run that registers the callbacks without dispatching
run_nopending(hs, h) == hs

\* a variant of run that announces the operation with a tag the reducer
\* does not know
run_reset(hs, h) ==
  [hs EXCEPT ![h] = useSafeDispatch(@, [type |-> "reset", data |-> UndefinedV,
                                        error |-> UndefinedV])]

\* useAsync.run up to the registration of the callbacks, on instance h
run(hs, h) == [hs EXCEPT ![h] = useSafeDispatch(@, PendingAction)]

\* a variant of RunEffect in which a new run drops the callbacks of the
\* instance's earlier promises
RunEffect_cancel(hs, h, pn, bd) ==
  LET c == Commit([hs EXCEPT ![h] = useSafeDispatch(@, PendingAction)], pn, bd)
      kept == [g \in 1..Len(futs) |->
                 IF futs[g].host = h /\ futs[g].stage # "done"
                   THEN [futs[g] EXCEPT !.stage = "done"]
                   ELSE futs[g]]
  IN /\ hosts' = c.hosts
     /\ boundary' = c.boundary
     /\ futs' = Append(kept, NewFut(h, pn, hs[h]))

\* a variant of RunEffect whose effect closes over the identifier of the
\* render before
RunEffect_stale(hs, h, pn, bd) ==
  LET c == Commit(run(hs, h), pn, bd)
  IN /\ hosts' = c.hosts
     /\ boundary' = c.boundary
     /\ futs' = Append(futs, NewFut(h, punkNumber, hs[h]))

\* a variant of RunEffect in which the effect's dispatch is applied
\* before the render with the new identifier is committed
RunEffect_batched(hs, h, pn, bd) ==
  LET c == Commit(run(hs, h), pn, bd)
  IN /\ hosts' = c.hosts
     /\ boundary' = c.boundary
     /\ futs' = Append(futs, NewFut(h, pn, run(hs, h)[h]))

\* PunkInfo rendered with identifier pn on instance h and then its effect
\* `run(fetchPunk(pn))`: the render is committed with the state hs[h] the
\* instance has, the effect runs after it and its dispatch renders again
RunEffect(hs, h, pn, bd) ==
  LET c == Commit(run(hs, h), pn, bd)
  IN /\ hosts' = c.hosts
     /\ boundary' = c.boundary
     /\ futs' = Append(futs, NewFut(h, pn, hs[h]))

(***************************************************************************)
(* The reducer harness: the sets its inputs are drawn from                 *)
(***************************************************************************)
Values == { PunkRecord(<<Digits[i + 1]>>) : i \in 1..NumValues }
Errors == { ErrorObj(i, FixedMessage) : i \in 1..NumValues }
UnknownTags == {"idle", "reset", "undefined"}

ReducerStates ==
  { InitialState(<<>>), InitialState(<<"7">>),
    asyncReducer(InitialState(<<>>), PendingAction) }
  \cup { asyncReducer(InitialState(<<>>), ResolvedAction(v)) : v \in Values }
  \cup { asyncReducer(InitialState(<<>>), RejectedAction(e)) : e \in Errors }

KnownEvents ==
  {PendingAction} \cup { ResolvedAction(v) : v \in Values }
  \cup { RejectedAction(e) : e \in Errors }
UnknownEvents ==
  { [type |-> t, data |-> d, error |-> UndefinedV] :
      t \in UnknownTags, d \in Values \cup {UndefinedV} }
NoEvent == [type |-> "none", data |-> UndefinedV, error |-> UndefinedV]
NoThrow == [k |-> "none", message |-> <<>>]

(***************************************************************************)
(* Initial states                                                          *)
(***************************************************************************)
AppInit ==
  /\ build \in Builds
  /\ punkNumber = <<>>
  /\ punkName = <<>>
  /\ hosts = <<NewHost(<<>>)>>
  /\ boundary = NoError
  /\ futs = <<>>
  /\ timers = <<>>

Init ==
  /\ AppInit
  /\ rstate = InitialState(<<>>)
  /\ raction = NoEvent
  /\ rprior = InitialState(<<>>)
  /\ rthrown = NoThrow
  /\ submissions = <<>>

InitReducer ==
  /\ AppInit
  /\ rstate \in ReducerStates
  /\ raction = NoEvent
  /\ rprior = rstate
  /\ rthrown = NoThrow
  /\ submissions = <<>>

\* the form harness starts with any text in the input
InitForm ==
  /\ build \in Builds
  /\ punkNumber = <<>>
  /\ punkName \in FormTexts
  /\ hosts = <<NewHost(<<>>)>>
  /\ boundary = NoError
  /\ futs = <<>>
  /\ timers = <<>>
  /\ rstate = InitialState(<<>>)
  /\ raction = NoEvent
  /\ rprior = InitialState(<<>>)
  /\ rthrown = NoThrow
  /\ submissions = <<>>

(***************************************************************************)
(* Actions of the application                                              *)
(***************************************************************************)
\* PunkForm.handleChange
HandleChange(t) ==
  /\ t # punkName
  /\ punkName' = t
  /\ UNCHANGED <<build, punkNumber, hosts, boundary, futs, timers>>
  /\ UNCHANGED harnessVars

\* PunkForm.handleSubmit that leaves the identifier as it is: the text does
\* not parse, or App.handleSubmit sets the value punkNumber already has
SubmitNoChange ==
  /\ LET r == handleSubmit(build, punkName)
     IN ~r.called \/ r.arg = punkNumber
  /\ UNCHANGED vars

\* PunkForm.handleSubmit -> App.handleSubmit -> setPunkNumber, with the
\* PunkInfo instance mounted: it re-renders and its effect calls run
SubmitRun ==
  /\ boundary = NoError
  /\ Len(futs) < MaxFuts
  /\ LET r == handleSubmit(build, punkName) IN
       /\ r.called
       /\ r.arg # punkNumber
       /\ punkNumber' = r.arg
       /\ punkName' = r.arg
       /\ RunEffect(hosts, Len(hosts), r.arg, boundary)
  /\ UNCHANGED <<build, timers>>
  /\ UNCHANGED harnessVars

\* the same submission while the ErrorBoundary shows its fallback: the
\* changed resetKeys reset the boundary, which mounts a new PunkInfo
SubmitRemount ==
  /\ boundary # NoError
  /\ Len(futs) < MaxFuts
  /\ Len(hosts) < MaxHosts
  /\ LET r == handleSubmit(build, punkName) IN
       /\ r.called
       /\ r.arg # punkNumber
       /\ punkNumber' = r.arg
       /\ punkName' = r.arg
       /\ RunEffect(Append(hosts, NewHost(r.arg)), Len(hosts) + 1, r.arg, NoError)
  /\ UNCHANGED <<build, timers>>
  /\ UNCHANGED harnessVars

\* a variant of TryAgain whose handleReset leaves the identifier as it
\* is: the boundary resets and the new instance runs for it again
TryAgain_noclear ==
  /\ boundary # NoError
  /\ Len(hosts) < MaxHosts
  /\ Len(futs) < MaxFuts
  /\ UNCHANGED <<punkNumber, punkName>>
  /\ RunEffect(Append(hosts, NewHost(punkNumber)), Len(hosts) + 1,
               punkNumber, NoError)
  /\ UNCHANGED <<build, timers>>
  /\ UNCHANGED harnessVars

\* ErrorFallback's button: resetErrorBoundary -> App.handleReset
TryAgain ==
  /\ boundary # NoError
  /\ Len(hosts) < MaxHosts
  /\ punkNumber' = <<>>
  /\ punkName' = IF punkNumber # <<>> THEN <<>> ELSE punkName
  /\ LET c == Commit(Append(hosts, NewHost(<<>>)), <<>>, NoError) IN
       /\ hosts' = c.hosts
       /\ boundary' = c.boundary
  /\ UNCHANGED <<build, futs, timers>>
  /\ UNCHANGED harnessVars

\* a variant of RespondFulfil whose callback dispatches to the instance
\* mounted now instead of the instance that called run
RespondFulfil_current(f, resp) ==
  /\ futs[f].settled = "pending"
  /\ build = "App"
  /\ LET o == fetchPunk(build, futs[f].id, resp)
         h == Len(hosts)
         c == Commit([hosts EXCEPT ![h] =
                        useSafeDispatch(@, ResolvedAction(o.value))],
                     punkNumber, boundary)
     IN
       /\ o.settled = "fulfilled"
       /\ hosts' = c.hosts
       /\ boundary' = c.boundary
       /\ futs' = [futs EXCEPT
            ![f].settled = "fulfilled",
            ![f].value = o.value,
            ![f].stage = "done",
            ![f].late = SettlesLate(futs, f),
            ![f].disp = Append(@, Dispatched("resolved", hosts[h]))]
  /\ UNCHANGED <<build, punkNumber, punkName, timers>>
  /\ UNCHANGED harnessVars

\* the HTTP exchange of promise f ends and fetchPunk's promise settles
\* fulfilled; run's first callback runs
RespondFulfil(f, resp) ==
  /\ futs[f].settled = "pending"
  /\ LET o == fetchPunk(build, futs[f].id, resp)
         h == futs[f].host
     IN
       /\ o.settled = "fulfilled"
       /\ IF build = "App"
            THEN LET c == Commit([hosts EXCEPT ![h] =
                                    useSafeDispatch(@, ResolvedAction(o.value))],
                                 punkNumber, boundary)
                 IN /\ hosts' = c.hosts
                    /\ boundary' = c.boundary
                    /\ timers' = timers
                    /\ futs' = [futs EXCEPT
                         ![f].settled = "fulfilled",
                         ![f].value = o.value,
                         ![f].stage = "done",
                         ![f].late = SettlesLate(futs, f),
                         ![f].disp = Append(@, Dispatched("resolved", hosts[h]))]
            ELSE /\ timers' = Append(timers, f)
                 /\ futs' = [futs EXCEPT ![f].settled = "fulfilled",
                                         ![f].value = o.value,
                                         ![f].late = SettlesLate(futs, f),
                                         ![f].stage = "timer"]
                 /\ UNCHANGED <<hosts, boundary>>
  /\ UNCHANGED <<build, punkNumber, punkName>>
  /\ UNCHANGED harnessVars

\* a variant of RespondReject for a run that passes no second callback
\* to then: the rejection stays without a handler
RespondReject_nohandler(f, resp) ==
  /\ futs[f].settled = "pending"
  /\ LET o == fetchPunk(build, futs[f].id, resp) IN
       /\ o.settled = "rejected"
       /\ futs' = [futs EXCEPT
            ![f].settled = "rejected",
            ![f].cause = o.message,
            ![f].error = ErrorObj(f, o.message),
            ![f].stage = "unhandled"]
  /\ UNCHANGED <<build, punkNumber, punkName, hosts, boundary, timers>>
  /\ UNCHANGED harnessVars

\* the promise settles rejected; run's second callback overwrites the
\* error's message and dispatches
RespondReject(f, resp) ==
  /\ futs[f].settled = "pending"
  /\ LET o == fetchPunk(build, futs[f].id, resp)
         h == futs[f].host
         error == onRejected(ErrorObj(f, o.message))
         c == Commit([hosts EXCEPT ![h] =
                        useSafeDispatch(@, RejectedAction(error))],
                     punkNumber, boundary)
     IN
       /\ o.settled = "rejected"
       /\ hosts' = c.hosts
       /\ boundary' = c.boundary
       /\ futs' = [futs EXCEPT
            ![f].settled = "rejected",
            ![f].cause = o.message,
            ![f].error = error,
            ![f].stage = "done",
            ![f].late = SettlesLate(futs, f),
            ![f].disp = Append(@, Dispatched("rejected", hosts[h]))]
  /\ UNCHANGED <<build, punkNumber, punkName, timers>>
  /\ UNCHANGED harnessVars

\* the 2000 ms timer set by run's first callback fires
TimerFire ==
  /\ timers # <<>>
  /\ LET f == Head(timers)
         h == futs[f].host
         c == Commit([hosts EXCEPT ![h] =
                        useSafeDispatch(@, ResolvedAction(futs[f].value))],
                     punkNumber, boundary)
     IN
       /\ hosts' = c.hosts
       /\ boundary' = c.boundary
       /\ futs' = [futs EXCEPT
            ![f].stage = "done",
            ![f].disp = Append(@, Dispatched("resolved", hosts[h]))]
  /\ timers' = Tail(timers)
  /\ UNCHANGED <<build, punkNumber, punkName>>
  /\ UNCHANGED harnessVars

Next ==
  \/ \E t \in Texts : HandleChange(t)
  \/ SubmitNoChange
  \/ SubmitRun
  \/ SubmitRemount
  \/ TryAgain
  \/ \E f \in 1..Len(futs) : \E resp \in Responses : RespondFulfil(f, resp)
  \/ \E f \in 1..Len(futs) : \E resp \in Responses : RespondReject(f, resp)
  \/ TimerFire

Spec == Init /\ [][Next]_vars

\* the timer callback and the promise callbacks are run by the event loop
FairSpec == Spec /\ WF_vars(TimerFire)

(***************************************************************************)
(* The reducer harness: asyncReducer applied to any state and any event    *)
(***************************************************************************)
Apply(e) ==
  /\ LET r == asyncReducer(rstate, e) IN
       IF IsThrow(r)
         THEN /\ rthrown' = r
              /\ rstate' = rstate
         ELSE /\ rthrown' = NoThrow
              /\ rstate' = r
  /\ raction' = e
  /\ rprior' = rstate
  /\ UNCHANGED appVars
  /\ UNCHANGED formVars

ApplyKnown == \E e \in KnownEvents : Apply(e)
ApplyUnknown == \E e \in UnknownEvents : Apply(e)

NextReducer ==
  \/ ApplyKnown
  \/ ApplyUnknown

SpecReducer == InitReducer /\ [][NextReducer]_vars

(***************************************************************************)
(* The form harness: one submission of any text to the first instance      *)
(***************************************************************************)
\* PunkForm.handleSubmit, which does not call onSubmit
PunkFormReturn ==
  /\ submissions = <<>>
  /\ LET r == handleSubmit(build, punkName) IN
       /\ ~r.called
       /\ submissions' = <<Submission(punkName, r)>>
  /\ UNCHANGED appVars
  /\ UNCHANGED redVars

\* PunkForm.handleSubmit -> onSubmit = App.handleSubmit -> setPunkNumber;
\* PunkInfo renders with the new identifier and its effect calls run
PunkFormSubmit ==
  /\ submissions = <<>>
  /\ LET r == handleSubmit(build, punkName) IN
       /\ r.called
       /\ submissions' = <<Submission(punkName, r)>>
       /\ IF r.arg # punkNumber
            THEN /\ punkNumber' = r.arg
                 /\ punkName' = r.arg
                 /\ RunEffect(hosts, Len(hosts), r.arg, boundary)
            ELSE UNCHANGED <<punkNumber, punkName, hosts, boundary, futs>>
  /\ UNCHANGED <<build, timers>>
  /\ UNCHANGED redVars

NextForm ==
  \/ PunkFormReturn
  \/ PunkFormSubmit

SpecForm == InitForm /\ [][NextForm]_vars

(***************************************************************************)
(* Properties                                                              *)
(***************************************************************************)
FutIds == 1..Len(futs)
HostIds == 1..Len(hosts)
Present(x) == x # NullV /\ x # UndefinedV
PendingState == [status |-> "pending", data |-> UndefinedV, error |-> UndefinedV]
ResolvedState(v) == [status |-> "resolved", data |-> v, error |-> UndefinedV]
RejectedState(e) == [status |-> "rejected", data |-> UndefinedV, error |-> e]

\* the settlement dispatch of promise f has been made / reached the reducer
Settled(f) == Len(futs[f].disp) = 2
SettlementApplied(f) == Settled(f) /\ futs[f].disp[2].applied
SettlementDropped(f) == Settled(f) /\ ~futs[f].disp[2].applied

\* C1: once a PunkInfo instance is detached, no step changes its lifecycle
\* state or raises an error in it, whatever dispatches are made through
\* its safe dispatcher afterwards.
C1_DetachedFrozen ==
  [][\A h \in HostIds : ~hosts[h].mounted => hosts'[h] = hosts[h]]_vars

\* a promise started before the detach has settled after it and its
\* dispatch was dropped
C1_Witness ==
  \E f \in FutIds :
    /\ ~hosts[futs[f].host].mounted
    /\ SettlementDropped(f)
    /\ futs[f].disp[1].applied

\* C2: every instance's state has one of the four statuses, carries a
\* result only when resolved and an error only when rejected, and
\* PunkInfo's render never reaches its final throw.
C2_NoMixedState ==
  \A h \in HostIds :
    /\ hosts[h].state.status \in {"idle", "pending", "resolved", "rejected"}
    /\ Present(hosts[h].state.data) => hosts[h].state.status = "resolved"
    /\ Present(hosts[h].state.error) => hosts[h].state.status = "rejected"
    /\ \A pn \in {<<>>, <<"0", "0", "7">>} :
         PunkInfo(hosts[h], pn).error # ErrorObj(0, Outside)

\* an instance that was resolved has moved on to pending or rejected
C2_Witness ==
  \E f \in FutIds :
    /\ SettlementApplied(f)
    /\ futs[f].disp[2].type = "resolved"
    /\ hosts[futs[f].host].state.status \in {"pending", "rejected"}
    /\ ~Present(hosts[futs[f].host].state.data)

Alone(f) ==
  /\ f <= Len(futs)
  /\ f = Len(futs)
  /\ futs[f].alone
  /\ hosts[futs[f].host].mounted

ResolvedWith(f) ==
  /\ f <= Len(futs)
  /\ hosts[futs[f].host].state = ResolvedState(futs[f].value)

\* C4: for a run that is the only one in flight, the state is pending
\* until the settlement is dispatched; once its promise has fulfilled
\* with v the run does not stay short of resolved-with-exactly-v for
\* ever (it gets there unless a further run starts first), and the state
\* then stays so until a further run starts.
C4_ResolvesWithValue ==
  /\ [](\A f \in FutIds :
          Alone(f) /\ ~Settled(f) => hosts[futs[f].host].state = PendingState)
  /\ []<>(\A f \in FutIds :
            Alone(f) /\ futs[f].settled = "fulfilled" => ResolvedWith(f))
  /\ [][\A f \in FutIds :
          Alone(f) /\ ResolvedWith(f) /\ Len(futs') = Len(futs)
            => hosts'[futs[f].host] = hosts[futs[f].host]]_vars

\* such a promise has fulfilled and the state holds its value
C4_Witness ==
  \E f \in FutIds :
    /\ Alone(f)
    /\ futs[f].settled = "fulfilled"
    /\ SettlementApplied(f)
    /\ ResolvedWith(f)
    /\ futs[f].value = PunkRecord(futs[f].id)

\* C5: a rejection that reaches a mounted instance leaves it rejected with
\* the promise's error, whose message is the fixed string and not the
\* underlying message; the ErrorBoundary holds that same error.
C5_FixedMessage ==
  /\ [](\A h \in HostIds :
          hosts[h].state.status = "rejected" =>
            /\ hosts[h].state.error.message = FixedMessage
            /\ hosts[h].state.error.message # futs[hosts[h].state.error.of].cause)
  /\ [](boundary # NoError => boundary.message = FixedMessage)
  /\ [][\A f \in FutIds :
          /\ futs[f].settled = "pending"
          /\ futs'[f].settled = "rejected"
          /\ hosts[futs[f].host].mounted
          => /\ hosts'[futs[f].host].state =
                  RejectedState(ErrorObj(f, FixedMessage))
             /\ futs'[f].cause # FixedMessage
             /\ boundary' = ErrorObj(f, FixedMessage)]_vars

\* the boundary shows the error of a promise that rejected with
\* fetchPunk's own message
C5_Witness ==
  \E f \in FutIds :
    /\ futs[f].settled = "rejected"
    /\ futs[f].cause = NoPunkFound(futs[f].id)
    /\ boundary = futs[f].error
    /\ hosts[futs[f].host].state.status = "rejected"

\* the two promises f and g are the only ones of their instance, g was
\* started after f, f settled after g, both have had their settlement
\* dispatched and nothing has replaced the instance since
TwoOverlapping(f, g) ==
  /\ f < g
  /\ futs[f].host = futs[g].host
  /\ futs[f].host = Len(hosts)
  /\ \A k \in FutIds : futs[k].host = futs[f].host => k \in {f, g}
  /\ futs[f].late
  /\ futs[f].stage = "done"
  /\ futs[g].stage = "done"

\* what is on screen is the outcome of promise f
Reflects(f) ==
  IF futs[f].settled = "fulfilled"
    THEN /\ boundary = NoError
         /\ hosts[futs[f].host].mounted
         /\ PunkInfo(hosts[futs[f].host], punkNumber).view = "card"
         /\ PunkInfo(hosts[futs[f].host], punkNumber).punk = futs[f].value
    ELSE /\ boundary # NoError
         /\ boundary.message = futs[f].error.message

\* C6 as stated: with run A then run B overlapping and A settling after
\* B, what is on screen at the end is A's outcome, whatever the outcomes.
C6_LastSettledWins ==
  \A f \in FutIds : \A g \in FutIds : TwoOverlapping(f, g) => Reflects(f)

\* C6 amended: that holds except when B rejected and A fulfilled; B's
\* rejection detached the instance, so A's dispatch is dropped and the
\* ErrorBoundary keeps showing B's error.
C6_LastSettledWinsUnlessDetached ==
  \A f \in FutIds : \A g \in FutIds :
    TwoOverlapping(f, g) =>
      IF futs[g].settled = "rejected"
        THEN /\ boundary = futs[g].error
             /\ ~hosts[futs[g].host].mounted
             /\ hosts[futs[g].host].state = RejectedState(futs[g].error)
             /\ SettlementDropped(f)
             /\ futs[f].settled = "rejected" => Reflects(f)
        ELSE Reflects(f)

\* both overlapping promises fulfilled and the later-settling first one
\* is on screen
C6_Witness ==
  \E f \in FutIds : \E g \in FutIds :
    /\ TwoOverlapping(f, g)
    /\ futs[f].settled = "fulfilled"
    /\ futs[g].settled = "fulfilled"
    /\ futs[f].value # futs[g].value
    /\ Reflects(f)

KnownTags == {"pending", "resolved", "rejected"}

\* C7: asyncReducer on a 'pending' event returns the pending state from
\* every prior state without throwing, and a second 'pending' changes
\* nothing.
C7_PendingFromAnyState ==
  raction.type = "pending" =>
    /\ rthrown = NoThrow
    /\ rstate.status = "pending"
    /\ asyncReducer(rstate, PendingAction) = rstate
    /\ asyncReducer(rprior, PendingAction) = rstate

\* 'pending' has been applied to a resolved state
C7_Witness ==
  /\ raction.type = "pending"
  /\ rprior.status = "resolved"
  /\ rstate.status = "pending"

\* C8: the result of asyncReducer on 'resolved' carrying v is the
\* resolved state with data v and nothing else, and on 'rejected'
\* carrying e the rejected state with error e and nothing else, whatever
\* the prior state was.
C8_ResultFromEventOnly ==
  /\ raction.type = "resolved" =>
       rthrown = NoThrow /\ rstate = ResolvedState(raction.data)
  /\ raction.type = "rejected" =>
       rthrown = NoThrow /\ rstate = RejectedState(raction.error)

\* 'rejected' has been applied to a resolved state holding a value
C8_Witness ==
  /\ raction.type = "rejected"
  /\ rprior.status = "resolved"
  /\ Present(rprior.data)
  /\ rstate.status = "rejected"

\* C9: asyncReducer on an event with an unrecognized tag throws, names
\* the tag in the error, and yields no state: the state stays the prior
\* one.
C9_UnknownTagThrows ==
  raction.type \notin KnownTags \cup {"none"} =>
    /\ rthrown = Threw(<<"Unhandled action type: ", raction.type>>)
    /\ rstate = rprior

\* an unrecognized event has been applied to a resolved state
C9_Witness ==
  /\ raction.type = "reset"
  /\ rprior.status = "resolved"
  /\ rthrown # NoThrow

\* C10: every run has made exactly one 'pending' dispatch, first, and at
\* most one settlement dispatch, of the kind its promise settled with,
\* made exactly when its callback chain has finished; a step that starts
\* a run leaves the earlier promises, their callbacks and timers as they
\* were.
C10_OneDispatchSequence ==
  /\ [](\A f \in FutIds :
          /\ Len(futs[f].disp) \in {1, 2}
          /\ futs[f].disp[1].type = "pending"
          /\ futs[f].stage \in {"waiting", "timer", "done"}
          /\ (futs[f].stage = "waiting") = (futs[f].settled = "pending")
          /\ (futs[f].stage = "done") = Settled(f)
          /\ (futs[f].stage = "timer") =
               (Cardinality({i \in 1..Len(timers) : timers[i] = f}) = 1)
          /\ Cardinality({i \in 1..Len(timers) : timers[i] = f}) <= 1
          /\ Settled(f) =>
               futs[f].disp[2].type =
                 (IF futs[f].settled = "fulfilled" THEN "resolved" ELSE "rejected"))
  /\ [][Len(futs') > Len(futs) =>
          /\ \A f \in FutIds : futs'[f] = futs[f]
          /\ timers' = timers]_vars

\* the settlement of an earlier run was dispatched and applied after a
\* later run of the same instance had started and settled
C10_Witness ==
  \E f \in FutIds : \E g \in FutIds :
    /\ f < g
    /\ futs[f].host = futs[g].host
    /\ futs[f].late
    /\ SettlementApplied(f)
    /\ Settled(g)

\* C11 as stated: the step in which a promise fulfils also makes its
\* 'resolved' dispatch, so nothing comes between the two.
C11_NoDelay ==
  [][\A f \in FutIds :
       futs[f].settled = "pending" /\ futs'[f].settled = "fulfilled"
         => /\ Len(futs'[f].disp) = 2
            /\ futs'[f].disp[2].type = "resolved"]_vars

\* C12: every rejected promise has had run's rejection callback run: the
\* 'rejected' dispatch was made with the overwritten error; the step that
\* rejects it leaves a mounted instance rejected and changes nothing of a
\* detached one.
C12_RejectionHandled ==
  /\ [](\A f \in FutIds :
          futs[f].settled = "rejected" =>
            /\ futs[f].stage = "done"
            /\ Settled(f)
            /\ futs[f].disp[2].type = "rejected"
            /\ futs[f].error = ErrorObj(f, FixedMessage))
  /\ [][\A f \in FutIds :
          futs[f].settled = "pending" /\ futs'[f].settled = "rejected" =>
            IF hosts[futs[f].host].mounted
              THEN /\ futs'[f].disp[2].applied
                   /\ hosts'[futs[f].host].state = RejectedState(futs'[f].error)
              ELSE /\ ~futs'[f].disp[2].applied
                   /\ hosts' = hosts
                   /\ boundary' = boundary]_vars

\* one rejection was turned into the rejected state and a later one, of
\* the instance then detached, was dropped
C12_Witness ==
  \E f \in FutIds : \E g \in FutIds :
    /\ futs[f].settled = "rejected"
    /\ futs[g].settled = "rejected"
    /\ futs[f].host = futs[g].host
    /\ SettlementApplied(f)
    /\ SettlementDropped(g)

Newest == Len(hosts)
Statuses == {"idle", "pending", "resolved", "rejected"}

\* C13: with the empty identifier PunkInfo's render gives the placeholder
\* for the state of every instance there is (idle, pending, resolved or
\* rejected) and throws nothing, the ErrorBoundary holds no error, and
\* no step that leaves the identifier empty starts a run.
C13_EmptyIdentifierRendersNothing ==
  /\ [](\A h \in HostIds :
          PunkInfo(hosts[h], <<>>) = View("empty", <<>>, UndefinedV, NoError))
  /\ [](punkNumber = <<>> =>
          /\ boundary = NoError
          /\ hosts[Newest].mounted
          /\ PunkInfo(hosts[Newest], punkNumber).view = "empty")
  /\ [][punkNumber' = <<>> => Len(futs') = Len(futs)]_vars

\* the identifier is empty again after a reset, and among the states
\* rendered with it are a rejected one and the idle one on screen
C13_Witness ==
  /\ punkNumber = <<>>
  /\ Newest > 1
  /\ hosts[Newest].state.status = "idle"
  /\ \E h \in HostIds : hosts[h].state.status = "rejected"
  /\ \E f \in FutIds : futs[f].settled = "pending"

\* identifiers the form can produce from the texts typed
SomeIds == { <<"0", "0", "7">>, <<"0", "4", "2">> }

\* C14: with a non-empty identifier PunkInfo's render is decided by the
\* status alone: idle the placeholder, pending the fallback for the
\* identifier, resolved the card with the state's record, rejected a
\* throw of the state's error.  A mounted instance is never rejected:
\* the ErrorBoundary holds the rejected instance's error exactly when
\* the newest instance is unmounted.
C14_BranchByStatus ==
  /\ \A h \in HostIds : \A pn \in SomeIds \cup ({punkNumber} \ {<<>>}) :
       PunkInfo(hosts[h], pn) =
         CASE hosts[h].state.status = "idle" ->
                View("empty", pn, UndefinedV, NoError)
           [] hosts[h].state.status = "pending" ->
                View("fallback", pn, UndefinedV, NoError)
           [] hosts[h].state.status = "resolved" ->
                View("card", pn, hosts[h].state.data, NoError)
           [] hosts[h].state.status = "rejected" ->
                View("throw", pn, UndefinedV, hosts[h].state.error)
  /\ \A h \in HostIds :
       hosts[h].mounted =>
         h = Newest /\ boundary = NoError /\ hosts[h].state.status # "rejected"
  /\ (boundary # NoError) = ~hosts[Newest].mounted
  /\ boundary # NoError =>
       /\ hosts[Newest].state.status = "rejected"
       /\ boundary = hosts[Newest].state.error
       /\ punkNumber # <<>>

\* a rejection has been raised: the boundary shows it in place of the
\* instance, while an earlier instance's state is resolved
C14_Witness ==
  /\ boundary # NoError
  /\ hosts[Newest].state.status = "rejected"
  /\ \E h \in HostIds : hosts[h].state.status = "rejected" /\ h # Newest
  /\ \E f \in FutIds : SettlementApplied(f) /\ futs[f].disp[2].type = "resolved"

\* C15: while the ErrorBoundary shows the recovery view the reset can be
\* taken; it leaves the identifier empty, a new instance in the initial
\* idle state rendering the placeholder, and no error.  While the
\* identifier stays empty no settlement moves that instance, and the
\* next submission of a valid identifier starts a run on it.
C15_ResetToIdle ==
  /\ [](boundary # NoError /\ Len(hosts) < MaxHosts => ENABLED TryAgain)
  /\ [][boundary # NoError /\ boundary' = NoError /\ Len(futs') = Len(futs) =>
          /\ punkNumber' = <<>>
          /\ Len(hosts') = Len(hosts) + 1
          /\ hosts'[Len(hosts')] = NewHost(<<>>)
          /\ PunkInfo(hosts'[Len(hosts')], punkNumber').view = "empty"]_vars
  /\ [][boundary # NoError /\ boundary' = NoError =>
          punkNumber' = <<>> \/ punkNumber' # punkNumber]_vars
  /\ [](punkNumber = <<>> =>
          /\ boundary = NoError
          /\ hosts[Newest] = NewHost(<<>>))
  /\ [](punkNumber = <<>> /\ Len(futs) < MaxFuts
          /\ handleSubmit(build, punkName).called => ENABLED SubmitRun)
  /\ [][punkNumber = <<>> /\ punkNumber' # <<>> =>
          /\ Len(futs') = Len(futs) + 1
          /\ futs'[Len(futs')].host = Newest
          /\ futs'[Len(futs')].id = punkNumber'
          /\ hosts'[Newest].state = PendingState]_vars

\* the first instance ran twice and was detached by its second run's
\* rejection; the first run's promise settled without effect, and after
\* the reset the identifier that had failed was submitted again and runs
\* on the second instance
C15_Witness ==
  /\ Len(futs) = 3 /\ Newest = 2
  /\ futs[1].host = 1 /\ futs[2].host = 1 /\ futs[3].host = 2
  /\ futs[2].settled = "rejected" /\ SettlementApplied(2)
  /\ futs[3].id = futs[2].id
  /\ SettlementDropped(1)
  /\ hosts[2].state = PendingState

\* C16: a step starts a run exactly when it changes the identifier to a
\* non-empty value; it starts one run, for the new identifier, on the
\* newest instance (mounted by this step when the boundary held an
\* error), and leaves the earlier promises as they are.
C16_RunPerChange ==
  [][/\ (Len(futs') # Len(futs)) =
          (punkNumber' # punkNumber /\ punkNumber' # <<>>)
     /\ Len(futs') # Len(futs) =>
          /\ Len(futs') = Len(futs) + 1
          /\ SubSeq(futs', 1, Len(futs)) = futs
          /\ futs'[Len(futs')].id = punkNumber'
          /\ futs'[Len(futs')].settled = "pending"
          /\ futs'[Len(futs')].host = Len(hosts')
          /\ hosts'[Len(hosts')].state = PendingState
          /\ Len(hosts') = IF boundary = NoError THEN Len(hosts)
                                                 ELSE Len(hosts) + 1]_vars

\* a run started by a change on the first instance, one started by the
\* mount of the second, and the third instance mounted by a reset with
\* the empty identifier and no run
C16_Witness ==
  /\ Len(futs) = 2 /\ Newest = 3
  /\ futs[1].host = 1 /\ futs[2].host = 2
  /\ futs[1].id # futs[2].id
  /\ punkNumber = <<>>

\* C17: a text that parseInt turns into no number is never passed to
\* onSubmit: after its submission the identifier is still empty, no run
\* has been started and the instance is in its initial idle state.
C17_NonNumericIgnored ==
  /\ \A i \in 1..Len(submissions) :
       parseInt(submissions[i].text).nan =>
         /\ ~submissions[i].called
         /\ punkName = submissions[i].text
         /\ punkNumber = <<>>
         /\ futs = <<>>
         /\ hosts = <<NewHost(<<>>)>>
         /\ boundary = NoError
  /\ parseInt(punkName).nan => ~ENABLED PunkFormSubmit

\* the text "aa1" has been submitted
C17_Witness ==
  /\ submissions # <<>>
  /\ submissions[1].text = <<"a", "a", "1">>
  /\ hosts[1].state.status = "idle"

\* the three-digit decimal of a number from 0 to 99
Pad3(n) == <<"0", Digits[(n \div 10) + 1], Digits[(n % 10) + 1]>>

\* C18: a submitted text whose value is from 0 to 99 is passed on as the
\* value's three-digit decimal, one whose value is above 9999 as its
\* first four characters, and the run is started for that identifier.
C18_PadAndTruncate ==
  \A i \in 1..Len(submissions) :
    LET s == submissions[i]
        p == parseInt(s.text)
    IN /\ (~p.nan /\ p.val >= 0 /\ p.val <= 99) =>
            /\ s.called /\ s.arg = Pad3(p.val)
            /\ Len(futs) = 1 /\ futs[1].id = Pad3(p.val)
       /\ (~p.nan /\ p.val > 9999) =>
            /\ s.called /\ s.arg = Slice04(s.text)
            /\ Len(s.arg) = 4
            /\ Len(futs) = 1 /\ futs[1].id = Slice04(s.text)

\* C19: an instance changes only in a step in which one of its own
\* promises dispatches (the 'pending' of a new run or a settlement), and
\* a settlement dispatched when a newer instance has been mounted changes
\* no instance and not the boundary.
C19_InstancesIsolated ==
  [][/\ \A h \in HostIds :
          hosts'[h] # hosts[h] =>
            \E f \in 1..Len(futs') :
              /\ futs'[f].host = h
              /\ \/ f > Len(futs)
                 \/ Len(futs'[f].disp) > Len(futs[f].disp)
     /\ \A f \in FutIds :
          Len(futs'[f].disp) > Len(futs[f].disp) /\ futs[f].host < Newest =>
            /\ ~futs'[f].disp[2].applied
            /\ hosts' = hosts
            /\ boundary' = boundary]_vars

\* a promise of the detached first instance has fulfilled, its dispatch
\* was dropped, and the second instance is mounted and shows the fallback
\* of its own run, which is still pending
C19_Witness ==
  \E f, g \in FutIds :
    /\ futs[f].host = 1 /\ futs[f].settled = "fulfilled"
    /\ SettlementDropped(f)
    /\ futs[g].host = 2 /\ futs[g].settled = "pending"
    /\ Newest = 2 /\ hosts[2].mounted /\ hosts[2].state = PendingState
    /\ PunkInfo(hosts[2], punkNumber).view = "fallback"

\* every run was started when the instance's earlier promises had settled
\* and their dispatches were made
NonOverlapping == \A f \in FutIds : futs[f].alone

\* the card v shows a record that a run for the card's identifier produced
OwnRecord(v) ==
  v.view = "card" =>
    \E f \in FutIds :
      /\ futs[f].id = v.number
      /\ futs[f].settled = "fulfilled"
      /\ futs[f].value = v.punk

\* C20: with non-overlapping runs, every card PunkInfo renders for an
\* identifier shows a record that the run for that identifier produced:
\* the render of the mounted instance now, and the render that each run's
\* effect followed.
C20_CardShowsOwnRecord ==
  NonOverlapping =>
    /\ hosts[Newest].mounted => OwnRecord(PunkInfo(hosts[Newest], punkNumber))
    /\ \A f \in FutIds : OwnRecord(futs[f].frame)

\* C21: asyncReducer's throw for an unknown tag does not happen in the
\* application: every dispatch run has made carries pending, resolved or
\* rejected, no instance has caught a reducer error, every state has one
\* of the four statuses, and the only error the ErrorBoundary ever holds
\* is a rejection with the fixed message.
C21_ReducerNeverThrows ==
  /\ \A h \in HostIds :
       /\ hosts[h].crash = NoError
       /\ hosts[h].state.status \in Statuses
       /\ \A e \in KnownEvents \cup {PendingAction} :
            ~IsThrow(asyncReducer(hosts[h].state, e))
  /\ \A f \in FutIds : \A i \in 1..Len(futs[f].disp) :
       futs[f].disp[i].type \in KnownTags
  /\ boundary # NoError =>
       /\ boundary.message = FixedMessage
       /\ boundary = hosts[Newest].state.error

\* the first instance ran twice and was detached by its second run's
\* rejection, the first run's settlement was dropped; after the reset the
\* second instance ran for the same identifier and was resolved
C21_Witness ==
  /\ Len(futs) = 3 /\ Newest = 2
  /\ futs[1].host = 1 /\ SettlementDropped(1)
  /\ futs[2].host = 1 /\ SettlementApplied(2) /\ futs[2].disp[2].type = "rejected"
  /\ futs[3].host = 2 /\ futs[3].id = futs[2].id
  /\ SettlementApplied(3) /\ futs[3].disp[2].type = "resolved"
  /\ hosts[2].mounted /\ boundary = NoError

\* C22: whatever text is submitted, an identifier passed to onSubmit is a
\* string of three or four decimal digits.
C22_ThreeOrFourDigits ==
  \A i \in 1..Len(submissions) :
    submissions[i].called =>
      /\ Len(submissions[i].arg) \in {3, 4}
      /\ \A j \in 1..Len(submissions[i].arg) : IsDigit(submissions[i].arg[j])

\* C23: fetchPunk's promise fulfils only for an exchange whose response
\* is ok: a fulfilled promise holds the record of its punk, never the
\* body of an error response, and no instance is resolved with anything
\* but the record of a punk it ran for.
C23_NotOkRejects ==
  /\ \A f \in FutIds :
       futs[f].settled = "fulfilled" => futs[f].value = PunkRecord(futs[f].id)
  /\ \A h \in HostIds :
       hosts[h].state.status = "resolved" =>
         \E f \in FutIds : /\ futs[f].host = h
                           /\ hosts[h].state.data = PunkRecord(futs[f].id)

====
